---- MODULE Spec2Model ----
(***************************************************************************)
(* A model of the SocialVid client: the App component (posts, profile and  *)
(* their persistence in localStorage), the profile page, the video feed    *)
(* with its cards, the post creator with its thumbnail extraction and its  *)
(* suggestion requests, and the Gemini service functions.                  *)
(*                                                                         *)
(* React is modelled at the level of event handlers and passive effects:   *)
(* a handler is one action; the effects its state changes schedule run in  *)
(* the action RunEffects, which runs before any further handler (React     *)
(* flushes passive effects before the next event); only the browser's own  *)
(* media loading steps may come in between.                                *)
(*                                                                         *)
(* Strings whose characters matter (names, captions, API texts, error      *)
(* messages) are sequences of tokens; " " and "\n" are the white space.    *)
(***************************************************************************)
EXTENDS Integers, Sequences, FiniteSets, TLC

VARIABLES
  route,             \* location.pathname of the HashRouter
  posts,             \* App: posts
  userProfile,       \* App: userProfile
  localStorage,      \* window.localStorage: a function on the keys present
  dirty,             \* effects with object dependencies that are pending
  nextUuid,          \* the next value crypto.randomUUID() returns
  now,               \* the last value Date.now() returned
  pp,                \* ProfilePage: its state while it is mounted
  readers,           \* FileReaders of handleSave that have not finished
  activeVideoIndex,  \* VideoFeed: activeVideoIndex
  scrollTop,         \* VideoFeed: feedRef.current.scrollTop
  scrollEvent,       \* VideoFeed: a scroll event is waiting for dispatch
  feedDeps,          \* VideoFeed: the dependencies of the last effect run
  cards,             \* VideoFeed: the VideoCards, in the order rendered
  oldFeed,           \* the VideoFeed of components/VideoFeed.tsx
  svc,               \* geminiService: the call in progress
  unloaded,          \* the keys of the cards liked when the page was unloaded
  creator,           \* PostCreator: its state while it is mounted
  thumbs,            \* PostCreator: thumbnail extractions that have not ended
  requests,          \* PostCreator: the Promise.all of suggestions in flight
  apiKeyModal,       \* App: showApiKeyModal and apiKeyErrorPrompt
  selector,          \* window.aistudio: the key selection dialog is open
  env,               \* process.env.API_KEY
  clients,           \* the number of GoogleGenAI clients built so far
  lastOp             \* the handler that ran last, if a claim names it

appVars == <<route, posts, userProfile, localStorage, dirty, nextUuid, now>>
profileVars == <<pp, readers>>
feedVars == <<activeVideoIndex, scrollTop, scrollEvent, feedDeps, cards,
              oldFeed>>
creatorVars == <<creator, thumbs, requests, apiKeyModal, selector>>
keyVars == <<env, clients>>
vars == <<appVars, profileVars, feedVars, svc, unloaded, creatorVars, keyVars,
          lastOp>>

----------------------------------------------------------------------------
(* Bounds *)

MaxPosts == 2
MaxReaders == 1
MaxTasks == 2
MaxPending == 2
ClientHeight == 2

----------------------------------------------------------------------------
(* Strings *)

WhiteSpace == {" ", "\n"}

\* String.prototype.trim: drops the leading and the trailing white space
RECURSIVE TrimStart(_)
TrimStart(s) ==
  IF s # <<>> /\ Head(s) \in WhiteSpace THEN TrimStart(Tail(s)) ELSE s

RECURSIVE TrimEnd(_)
TrimEnd(s) ==
  IF s # <<>> /\ s[Len(s)] \in WhiteSpace
    THEN TrimEnd(SubSeq(s, 1, Len(s) - 1))
    ELSE s

Trim(s) == TrimEnd(TrimStart(s))

\* String.prototype.includes
Includes(s, needle) ==
  \E i \in 0..(Len(s) - Len(needle)) :
     SubSeq(s, i + 1, i + Len(needle)) = needle

\* String.prototype.startsWith
StartsWith(s, prefix) ==
  Len(s) >= Len(prefix) /\ SubSeq(s, 1, Len(prefix)) = prefix

----------------------------------------------------------------------------
(* JSON and localStorage *)

\* the value of a property in a serialised object (a sequence of pairs)
Field(body, key) ==
  body[CHOOSE i \in DOMAIN body : body[i][1] = key][2]

\* JSON.stringify of a Post: the properties in insertion order
StringifyPost(p) ==
  << <<"videoUrl", p.videoUrl>>, <<"thumbnailUrl", p.thumbnailUrl>>,
     <<"caption", p.caption>>, <<"id", p.id>>, <<"timestamp", p.timestamp>>,
     <<"likes", p.likes>>, <<"comments", p.comments>>,
     <<"userName", p.userName>>, <<"userAvatar", p.userAvatar>> >>

ParsePost(body) ==
  [ id |-> Field(body, "id"), videoUrl |-> Field(body, "videoUrl"),
    thumbnailUrl |-> Field(body, "thumbnailUrl"),
    caption |-> Field(body, "caption"),
    timestamp |-> Field(body, "timestamp"), likes |-> Field(body, "likes"),
    comments |-> Field(body, "comments"),
    userName |-> Field(body, "userName"),
    userAvatar |-> Field(body, "userAvatar") ]

\* JSON.stringify(posts)
StringifyPosts(ps) ==
  [kind |-> "json", body |-> [i \in DOMAIN ps |-> StringifyPost(ps[i])]]

\* JSON.stringify of a UserProfile
StringifyProfile(u) ==
  [kind |-> "json",
   body |-> << <<"id", u.id>>, <<"name", u.name>>, <<"bio", u.bio>>,
               <<"avatarUrl", u.avatarUrl>>, <<"followers", u.followers>> >>]

ParseProfile(body) ==
  [ id |-> Field(body, "id"), name |-> Field(body, "name"),
    bio |-> Field(body, "bio"), avatarUrl |-> Field(body, "avatarUrl"),
    followers |-> Field(body, "followers") ]

\* a stored text JSON.parse throws on
Unparsable == [kind |-> "garbage", body |-> <<>>]

\* whether JSON.parse returns
Parses(text) == text.kind = "json"

\* whether a stored text is truthy (neither null nor '')
Truthy(text) == text.kind # "empty"

PostsKey == <<"socialvid_posts">>
ProfileKey == <<"socialvid_user_profile">>
FollowedKey(id) == <<"socialvid_followed_", id>>

\* localStorage.getItem(key) !== null
HasItem(store, key) == key \in DOMAIN store

\* localStorage.setItem(key, text)
SetItem(store, key, text) ==
  [k \in DOMAIN store \cup {key} |-> IF k = key THEN text ELSE store[k]]

\* the text 'true' of the followed flag
TrueText == [kind |-> "text", body |-> "true"]

\* localStorage.getItem(`socialvid_followed_${id}`) === 'true'
StoredFollowed(store, id) ==
  HasItem(store, FollowedKey(id)) /\ store[FollowedKey(id)] = TrueText

----------------------------------------------------------------------------
(* App: initial state *)

DefaultName == <<"Usuário", " ", "Gemini">>
DefaultBio == <<"Olá!", " ", "Sou", " ", "um", " ", "entusiasta">>
DefaultAvatar == <<"https://i.pravatar.cc/150?img=68">>
Null == <<>>

\* the initialiser of the posts state
InitPosts(store) ==
  IF HasItem(store, PostsKey) /\ Truthy(store[PostsKey])
    THEN IF Parses(store[PostsKey])
           THEN [i \in DOMAIN store[PostsKey].body |->
                   ParsePost(store[PostsKey].body[i])]
           ELSE <<>>
    ELSE <<>>

DefaultProfile(uuid) ==
  [ id |-> uuid, name |-> DefaultName, bio |-> DefaultBio,
    avatarUrl |-> DefaultAvatar, followers |-> 0 ]

\* the initialiser of the userProfile state
InitUserProfile(store, uuid) ==
  IF /\ HasItem(store, ProfileKey)
     /\ Truthy(store[ProfileKey])
     /\ Parses(store[ProfileKey])
    THEN ParseProfile(store[ProfileKey].body)
    ELSE DefaultProfile(uuid)

EmptyStore == [k \in {} |-> Unparsable]

----------------------------------------------------------------------------
(* The HTMLVideoElement of a card and the callbacks attached to play() *)

PlayEvent == [type |-> "play", promises |-> <<>>]

\* videoRef.current.pause(): a playing element pauses, takes its pending
\* play promises and queues the task that fires 'pause' and rejects them
VideoPause(c) ==
  IF c.paused
    THEN [c EXCEPT !.calls = Append(@, "pause")]
    ELSE [c EXCEPT !.paused = TRUE, !.pending = <<>>,
                   !.tasks = Append(@, [type |-> "pause",
                                        promises |-> c.pending]),
                   !.calls = Append(@, "pause")]

\* .then of play(): setIsPlaying(true); setShowPlayIcon(false)
Then(c) == [c EXCEPT !.isPlaying = TRUE, !.showPlayIcon = FALSE]

\* .catch of play(): the effect's handler also pauses the element
Catch(c, origin) ==
  IF origin = "effect"
    THEN VideoPause([c EXCEPT !.isPlaying = FALSE, !.showPlayIcon = TRUE])
    ELSE [c EXCEPT !.isPlaying = FALSE, !.showPlayIcon = TRUE]

\* videoRef.current.play().then(..).catch(..) called from `origin`: when the
\* browser does not allow playback the promise is rejected at once, else
\* the element leaves the paused state, queues 'play' and the promise waits
VideoPlay(c, origin, allowed) ==
  IF ~allowed
    THEN Catch([c EXCEPT !.calls = Append(@, "play")], origin)
    ELSE [c EXCEPT !.paused = FALSE,
                   !.pending = Append(@, origin),
                   !.tasks = IF c.paused THEN Append(@, PlayEvent) ELSE @,
                   !.calls = Append(@, "play")]

\* the callbacks of a list of settled play promises, in order
RECURSIVE Settle(_, _, _)
Settle(c, promises, fulfilled) ==
  IF promises = <<>>
    THEN c
    ELSE Settle(IF fulfilled THEN Then(c) ELSE Catch(c, Head(promises)),
                Tail(promises), fulfilled)

\* onPlay / onPause of the <video>
OnPlay(c) == [c EXCEPT !.isPlaying = TRUE, !.showPlayIcon = FALSE]
OnPause(c) == [c EXCEPT !.isPlaying = FALSE, !.showPlayIcon = TRUE]

\* one queued media task of the element
RunMediaTask(c, task) ==
  CASE task.type = "play" -> OnPlay(c)
    [] task.type = "pause" -> Settle(OnPause(c), task.promises, FALSE)
    [] task.type = "resolve" -> Settle(c, task.promises, TRUE)
    [] task.type = "reject" -> Settle(c, task.promises, FALSE)

----------------------------------------------------------------------------
(* VideoCard *)

NoDeps == <<>>

InitCardLiked(post) ==
  [ isPlaying |-> FALSE, showPlayIcon |-> TRUE, isMuted |-> TRUE,
    isLiked |-> TRUE, likeCount |-> post.likes + 1,
    hasVideo |-> post.videoUrl # Null, key |-> post.id,
    paused |-> TRUE, muted |-> FALSE, pending |-> <<>>, tasks |-> <<>>,
    calls |-> <<>>, deps |-> <<>> ]

\* the state of a VideoCard when it mounts
InitCard(post) ==
  [ isPlaying |-> FALSE, showPlayIcon |-> TRUE, isMuted |-> TRUE,
    isLiked |-> FALSE, likeCount |-> post.likes,
    hasVideo |-> post.videoUrl # Null, key |-> post.id,
    paused |-> TRUE, muted |-> FALSE, pending |-> <<>>, tasks |-> <<>>,
    calls |-> <<>>, deps |-> NoDeps ]

\* calls: the play() and pause() calls of the last action (history)
Clear(c) == [c EXCEPT !.calls = <<>>]

\* the effect on [isActive, isMuted]
CardEffect(c, isActive, allowed) ==
  LET ran == IF ~c.hasVideo THEN c
             ELSE IF isActive
               THEN VideoPlay([c EXCEPT !.muted = c.isMuted], "effect",
                              allowed)
               ELSE [VideoPause(c) EXCEPT !.isPlaying = FALSE,
                                          !.showPlayIcon = TRUE]
  IN [ran EXCEPT !.deps = <<isActive, c.isMuted>>]

TogglePlayAnyCard(c, isActive, allowed) ==
  IF ~c.hasVideo THEN c
  ELSE IF c.isPlaying
    THEN [VideoPause(c) EXCEPT !.isPlaying = FALSE, !.showPlayIcon = TRUE]
    ELSE VideoPlay(c, "toggle", allowed)

\* togglePlay
TogglePlayCard(c, isActive, allowed) ==
  IF ~c.hasVideo THEN c
  ELSE IF c.isPlaying
    THEN [VideoPause(c) EXCEPT !.isPlaying = FALSE, !.showPlayIcon = TRUE]
    ELSE IF isActive THEN VideoPlay(c, "toggle", allowed) ELSE c

\* toggleMute
ToggleMuteCard(c) ==
  IF c.hasVideo
    THEN [c EXCEPT !.muted = ~c.muted, !.isMuted = ~c.muted]
    ELSE c

HandleLikeSame(c) ==
  [c EXCEPT !.isLiked = ~c.isLiked, !.likeCount = c.likeCount + 1]

\* handleLikeClick
HandleLikeClickCard(c) ==
  [c EXCEPT !.isLiked = ~c.isLiked,
            !.likeCount = IF c.isLiked THEN c.likeCount - 1
                                       ELSE c.likeCount + 1]

----------------------------------------------------------------------------
(* VideoFeed *)

\* Math.round(n / d) for n >= 0, d > 0
RoundDiv(n, d) == (2 * n + d) \div (2 * d)

SortedAsStored(ps) == ps

\* [...posts].sort((a, b) => b.timestamp - a.timestamp): a stable sort
RECURSIVE SortedPosts(_)
SortedPosts(ps) ==
  IF ps = <<>> THEN <<>>
  ELSE LET rest == SortedPosts(SubSeq(ps, 1, Len(ps) - 1))
           p == ps[Len(ps)]
           k == Cardinality({i \in DOMAIN rest :
                               rest[i].timestamp >= p.timestamp})
       IN SubSeq(rest, 1, k) \o <<p>> \o SubSeq(rest, k + 1, Len(rest))

Min(a, b) == IF a < b THEN a ELSE b
Max(a, b) == IF a > b THEN a ELSE b

HandleScrollNoClamp(top, height, length) ==
  RoundDiv(2 * top + height, 2 * height)

\* handleScroll of part_002: the clamped index for a scroll position;
\* Math.round((scrollTop + clientHeight / 2) / clientHeight)
HandleScrollIndex(top, height, length) ==
  Max(0, Min(RoundDiv(2 * top + height, 2 * height), length - 1))

\* handleScroll of components/VideoFeed.tsx
OldHandleScrollIndex(top, height) == RoundDiv(top, height)

\* isActive={index === activeVideoIndex}, cards numbered from 1
IsActive(i) == i - 1 = activeVideoIndex

\* feedRef.current is set when the feed <div> is rendered
HasFeedRef == route = "/" /\ Len(posts) > 0

\* the largest scrollTop: the cards are as high as the feed
MaxScrollTop == IF Len(posts) > 0 THEN (Len(posts) - 1) * ClientHeight ELSE 0

----------------------------------------------------------------------------
(* ProfilePage *)

NoFile == [type |-> <<>>, id |-> 0]
ImageFile == [type |-> <<"image/", "png">>, id |-> 1]
TextFile == [type |-> <<"text/", "plain">>, id |-> 2]
Files == {NoFile, ImageFile, TextFile}

\* URL.createObjectURL(file) and the result of FileReader.readAsDataURL
ObjectUrl(file) == <<"blob:", file.id>>
DataUrl(file) == <<"data:", file.id>>

NameInputs == {<<" ", "Ana", " ">>}
BioInputs == {<<>>}

Unmounted ==
  [ mounted |-> FALSE, isEditing |-> FALSE, editedName |-> <<>>,
    editedBio |-> <<>>, editedAvatarFile |-> NoFile,
    avatarPreviewUrl |-> Null, isFollowed |-> FALSE ]

\* the state of ProfilePage when it mounts
MountProfilePage(profile, store) ==
  [ mounted |-> TRUE, isEditing |-> FALSE, editedName |-> profile.name,
    editedBio |-> profile.bio, editedAvatarFile |-> NoFile,
    avatarPreviewUrl |-> profile.avatarUrl,
    isFollowed |-> StoredFollowed(store, profile.id) ]

\* the effect on [userProfile]
ProfileEffect(page, profile, store) ==
  [page EXCEPT !.editedName = profile.name, !.editedBio = profile.bio,
               !.avatarPreviewUrl = profile.avatarUrl,
               !.isFollowed = StoredFollowed(store, profile.id)]

\* { ...prevProfile, ...updatedProfile }
Merge(prev, updated) ==
  [k \in DOMAIN prev |-> IF k \in DOMAIN updated THEN updated[k] ELSE prev[k]]

----------------------------------------------------------------------------
(* PostCreator and the API key: state *)

VideoFile == [type |-> <<"video/", "mp4">>, id |-> 3]
Uploads == {NoFile, VideoFile, ImageFile}

\* canvas.toDataURL('image/jpeg') of a frame of the file
ThumbUrl(file) == <<"data:image/jpeg", file.id>>

\* the state of PostCreator when it mounts
MountPostCreator ==
  [ mounted |-> TRUE, videoFile |-> NoFile, videoPreviewUrl |-> Null,
    thumbnailUrl |-> Null, caption |-> <<>>, loadingSuggestions |-> FALSE,
    generatingThumbnail |-> FALSE, hasApiKeyError |-> FALSE ]

CreatorUnmounted == [MountPostCreator EXCEPT !.mounted = FALSE]

\* App: the API key modal is closed and has no prompt
NoModal == [show |-> FALSE, prompt |-> <<>>]

Keys == {"key1", "key2"}
InitialKey == "key1"

----------------------------------------------------------------------------
(* Mounting the route's component *)

\* VideoFeed and its cards mount on "/" and are dropped elsewhere
MountFeed(r, ps) ==
  /\ activeVideoIndex' = 0
  /\ scrollTop' = 0
  /\ scrollEvent' = FALSE
  /\ feedDeps' = NoDeps
  /\ cards' = IF r = "/"
                THEN [i \in 1..Len(ps) |-> InitCard(SortedPosts(ps)[i])]
                ELSE <<>>
  /\ oldFeed' = [activeVideoIndex |-> 0]

\* the render of <Routes> after the route or the App state was replaced
MountRoute(r, ps, profile, store) ==
  /\ route' = r
  /\ pp' = IF r = "/profile" THEN MountProfilePage(profile, store)
                             ELSE Unmounted
  /\ creator' = IF r = "/post" THEN MountPostCreator ELSE CreatorUnmounted
  /\ MountFeed(r, ps)

\* the effects that run after the first render
MountEffects(r) ==
  {"posts", "profile"} \cup (IF r = "/profile" THEN {"pp"} ELSE {})

----------------------------------------------------------------------------
(* Initial state: the first visit, with nothing stored *)

IdleSvc == [phase |-> "idle"]

Init ==
  /\ route = "/"
  /\ localStorage = EmptyStore
  /\ posts = InitPosts(EmptyStore)
  /\ userProfile = InitUserProfile(EmptyStore, 1)
  /\ nextUuid = 2
  /\ now = 0
  /\ dirty = MountEffects("/")
  /\ pp = Unmounted
  /\ readers = <<>>
  /\ activeVideoIndex = 0
  /\ scrollTop = 0
  /\ scrollEvent = FALSE
  /\ feedDeps = NoDeps
  /\ cards = <<>>
  /\ oldFeed = [activeVideoIndex |-> 0]
  /\ svc = IdleSvc
  /\ unloaded = {}
  /\ creator = CreatorUnmounted
  /\ thumbs = <<>>
  /\ requests = <<>>
  /\ apiKeyModal = NoModal
  /\ selector = FALSE
  /\ env = InitialKey
  /\ clients = 0
  /\ lastOp = <<"init">>

----------------------------------------------------------------------------
(* Effects *)

CardEffectPending(i) == cards[i].deps # <<IsActive(i), cards[i].isMuted>>

FeedEffectPending ==
  route = "/" /\ feedDeps # <<activeVideoIndex, Len(posts)>>

EffectsPending ==
  \/ dirty # {}
  \/ FeedEffectPending
  \/ \E i \in DOMAIN cards : CardEffectPending(i)

\* no handler runs between a render and its effects
Idle == ~EffectsPending

\* room in the media queues for the n tasks a handler can add to each
HasRoom(n) ==
  \A i \in DOMAIN cards :
     /\ Len(cards[i].tasks) + n <= MaxTasks
     /\ Len(cards[i].pending) + 1 <= MaxPending

\* the effect of VideoFeed (part_002): handleScroll() on the current
\* position, then handlePostsChange(): scrollTo top and setActiveVideoIndex(0)
FeedEffect ==
  IF HasFeedRef
    THEN LET clampedIndex ==
               HandleScrollIndex(scrollTop, ClientHeight, Len(posts))
             scrolled == IF clampedIndex # activeVideoIndex
                           THEN clampedIndex ELSE activeVideoIndex
             \* setActiveVideoIndex(0) is the last update of the batch
             reset == IF Len(posts) > 0 THEN 0 ELSE scrolled
         IN /\ scrollTop' = (IF Len(posts) > 0 THEN 0 ELSE scrollTop)
            /\ scrollEvent' = (scrollEvent \/ scrollTop' # scrollTop)
            /\ activeVideoIndex' = reset
    ELSE UNCHANGED <<scrollTop, scrollEvent, activeVideoIndex>>

PersistStale(store, key, text) == store

\* the persistence effects of App
Persist(store, key, text) == SetItem(store, key, text)

\* every effect of the last render: the cards, the page, then App
RunEffects ==
  /\ EffectsPending
  /\ \E allowed \in BOOLEAN :
       cards' = [i \in DOMAIN cards |->
                   IF CardEffectPending(i)
                     THEN CardEffect(Clear(cards[i]), IsActive(i), allowed)
                     ELSE Clear(cards[i])]
  /\ IF FeedEffectPending
       THEN FeedEffect /\ feedDeps' = <<activeVideoIndex, Len(posts)>>
       ELSE UNCHANGED <<scrollTop, scrollEvent, activeVideoIndex, feedDeps>>
  /\ pp' = IF "pp" \in dirty /\ pp.mounted
             THEN ProfileEffect(pp, userProfile, localStorage)
             ELSE pp
  /\ localStorage' =
       LET s1 == IF "posts" \in dirty
                   THEN Persist(localStorage, PostsKey, StringifyPosts(posts))
                   ELSE localStorage
       IN IF "profile" \in dirty
            THEN Persist(s1, ProfileKey, StringifyProfile(userProfile))
            ELSE s1
  /\ dirty' = {}
  /\ lastOp' = <<"RunEffects">>
  /\ UNCHANGED <<route, posts, userProfile, nextUuid, now, readers, oldFeed,
                 svc, unloaded, creatorVars,
                 keyVars>>

----------------------------------------------------------------------------
(* App: handlers *)

Routes == {"/", "/post", "/profile"}
LikeSamples == {0, 99}

\* what PostCreator hands to onPost
NewPostData ==
  { [videoUrl |-> <<"blob:", 7>>, thumbnailUrl |-> <<"data:", 7>>,
     caption |-> <<"oi">>] }

\* a FileReader whose page was unmounted still calls updateUserProfile
Orphaned(rs) == [i \in DOMAIN rs |-> [rs[i] EXCEPT !.live = FALSE]]

\* a <Link> of BottomNavBar (or onCancel of PostCreator)
Navigate(r) ==
  /\ Idle
  /\ r # route
  /\ MountRoute(r, posts, userProfile, localStorage)
  /\ dirty' = (IF r = "/profile" THEN {"pp"} ELSE {})
  /\ readers' = Orphaned(readers)
  /\ thumbs' = Orphaned(thumbs)
  /\ requests' = Orphaned(requests)
  /\ lastOp' = <<"other">>
  /\ UNCHANGED <<posts, userProfile, localStorage, nextUuid, now, svc,
                 unloaded, apiKeyModal, selector, keyVars>>

\* the post handlePost builds from newPostData
NewPost(data, uuid, time, likes, profile) ==
  [ id |-> uuid, videoUrl |-> data.videoUrl,
    thumbnailUrl |-> data.thumbnailUrl, caption |-> data.caption,
    timestamp |-> time, likes |-> likes, comments |-> <<>>,
    userName |-> profile.name, userAvatar |-> profile.avatarUrl ]

\* handlePost; Date.now() is later at every post
HandlePost(data, likes) ==
  /\ Idle
  /\ route = "/post"
  /\ Len(posts) < MaxPosts
  /\ posts' = Append(posts,
                     NewPost(data, nextUuid, now + 1, likes, userProfile))
  /\ nextUuid' = nextUuid + 1
  /\ now' = now + 1
  /\ MountRoute("/", posts', userProfile, localStorage)
  /\ dirty' = {"posts"}
  /\ readers' = Orphaned(readers)
  /\ thumbs' = Orphaned(thumbs)
  /\ requests' = Orphaned(requests)
  /\ lastOp' = <<"handlePost">>
  /\ UNCHANGED <<userProfile, localStorage, svc, unloaded, apiKeyModal,
                 selector, keyVars>>

\* the page is loaded again: App is constructed from `store`
LoadFrom(store) ==
  LET fresh == ~(/\ HasItem(store, ProfileKey)
                 /\ Truthy(store[ProfileKey])
                 /\ Parses(store[ProfileKey]))
  IN /\ Idle
     /\ localStorage' = store
     /\ posts' = InitPosts(store)
     /\ userProfile' = InitUserProfile(store, nextUuid)
     /\ nextUuid' = IF fresh THEN nextUuid + 1 ELSE nextUuid
     /\ MountRoute(route, posts', userProfile', store)
     /\ dirty' = MountEffects(route)
     /\ readers' = <<>>
     /\ thumbs' = <<>>
     /\ requests' = <<>>
     /\ apiKeyModal' = NoModal
     /\ selector' = FALSE
     /\ UNCHANGED <<now, svc, keyVars>>

\* what a card shows of its like button
Shown(c) == [isLiked |-> c.isLiked, likeCount |-> c.likeCount]

Reload ==
  /\ LoadFrom(localStorage)
  /\ unloaded' = {cards[i].key : i \in {j \in DOMAIN cards : cards[j].isLiked}}
  /\ lastOp' = <<"reload">>

----------------------------------------------------------------------------
(* ProfilePage: handlers *)

OnPage == Idle /\ route = "/profile" /\ pp.mounted

UpdateUserProfileKeepStore(store, profile, updated) ==
  [profile |-> Merge(profile, updated), store |-> store]

\* updateUserProfile: the merged profile and the storage it writes
UpdateUserProfile(store, profile, updated) ==
  [profile |-> Merge(profile, updated),
   store |-> SetItem(store, ProfileKey,
                     StringifyProfile(Merge(profile, updated)))]

ProfileDirty == {"profile"} \cup (IF pp.mounted THEN {"pp"} ELSE {})

StartEditing ==
  /\ OnPage /\ ~pp.isEditing
  /\ pp' = [pp EXCEPT !.isEditing = TRUE]
  /\ lastOp' = <<"other">>
  /\ UNCHANGED <<appVars, readers, feedVars, svc, unloaded, creatorVars,
                 keyVars>>

EditName(n) ==
  /\ OnPage /\ pp.isEditing
  /\ pp' = [pp EXCEPT !.editedName = n]
  /\ lastOp' = <<"other">>
  /\ UNCHANGED <<appVars, readers, feedVars, svc, unloaded, creatorVars,
                 keyVars>>

EditBio(b) ==
  /\ OnPage /\ pp.isEditing
  /\ pp' = [pp EXCEPT !.editedBio = b]
  /\ lastOp' = <<"other">>
  /\ UNCHANGED <<appVars, readers, feedVars, svc, unloaded, creatorVars,
                 keyVars>>

HandleAvatarChange(file) ==
  /\ OnPage /\ pp.isEditing
  /\ pp' = IF file # NoFile /\ StartsWith(file.type, <<"image/">>)
             THEN [pp EXCEPT !.editedAvatarFile = file,
                             !.avatarPreviewUrl = ObjectUrl(file)]
             ELSE [pp EXCEPT !.editedAvatarFile = NoFile,
                             !.avatarPreviewUrl = userProfile.avatarUrl]
  /\ lastOp' = <<"other">>
  /\ UNCHANGED <<appVars, readers, feedVars, svc, unloaded, creatorVars,
                 keyVars>>

HandleSave ==
  /\ OnPage /\ pp.isEditing
  /\ IF pp.editedAvatarFile # NoFile
       THEN /\ Len(readers) < MaxReaders
            /\ readers' = Append(readers,
                 [name |-> pp.editedName, bio |-> pp.editedBio,
                  file |-> pp.editedAvatarFile, live |-> TRUE])
            /\ UNCHANGED <<userProfile, localStorage, dirty, pp>>
       ELSE LET u == UpdateUserProfile(localStorage, userProfile,
                       [name |-> Trim(pp.editedName),
                        bio |-> Trim(pp.editedBio),
                        avatarUrl |-> IF pp.avatarPreviewUrl # Null
                                        THEN pp.avatarPreviewUrl
                                        ELSE DefaultAvatar])
            IN /\ userProfile' = u.profile
               /\ localStorage' = u.store
               /\ dirty' = ProfileDirty
               /\ pp' = [pp EXCEPT !.isEditing = FALSE]
               /\ UNCHANGED readers
  /\ lastOp' = <<"handleSave">>
  /\ UNCHANGED <<route, posts, nextUuid, now, feedVars, svc,
                 unloaded, creatorVars, keyVars>>

\* reader.onloadend of handleSave
ReaderLoadEnd ==
  /\ Idle
  /\ readers # <<>>
  /\ LET r == Head(readers)
         u == UpdateUserProfile(localStorage, userProfile,
                [name |-> Trim(r.name), bio |-> Trim(r.bio),
                 avatarUrl |-> DataUrl(r.file)])
     IN /\ userProfile' = u.profile
        /\ localStorage' = u.store
        /\ pp' = IF r.live /\ pp.mounted
                   THEN [pp EXCEPT !.isEditing = FALSE,
                                   !.editedAvatarFile = NoFile]
                   ELSE pp
  /\ dirty' = ProfileDirty
  /\ readers' = Tail(readers)
  /\ lastOp' = <<"onloadend">>
  /\ UNCHANGED <<route, posts, nextUuid, now, feedVars, svc,
                 unloaded, creatorVars, keyVars>>

HandleCancel ==
  /\ OnPage /\ pp.isEditing
  /\ pp' = [pp EXCEPT !.isEditing = FALSE,
                      !.editedName = userProfile.name,
                      !.editedBio = userProfile.bio,
                      !.editedAvatarFile = NoFile,
                      !.avatarPreviewUrl = userProfile.avatarUrl]
  /\ lastOp' = <<"other">>
  /\ UNCHANGED <<appVars, readers, feedVars, svc, unloaded, creatorVars,
                 keyVars>>

FollowAgain(page) == TRUE

\* the guard of handleFollowClick
MayFollow(page) == ~page.isFollowed

HandleFollowClick ==
  /\ OnPage /\ ~pp.isEditing
  /\ IF MayFollow(pp)
       THEN LET u == UpdateUserProfile(localStorage, userProfile,
                       [followers |-> userProfile.followers + 1])
            IN /\ userProfile' = u.profile
               /\ pp' = [pp EXCEPT !.isFollowed = TRUE]
               /\ localStorage' =
                    SetItem(u.store, FollowedKey(userProfile.id), TrueText)
               /\ dirty' = ProfileDirty
       ELSE UNCHANGED <<userProfile, pp, localStorage, dirty>>
  /\ lastOp' = <<"handleFollowClick">>
  /\ UNCHANGED <<route, posts, nextUuid, now, readers, feedVars, svc,
                 unloaded, creatorVars, keyVars>>

----------------------------------------------------------------------------
(* The application without the gestures on the feed *)

NextApp ==
  \/ RunEffects
  \/ \E r \in Routes : Navigate(r)
  \/ \E d \in NewPostData, l \in LikeSamples : HandlePost(d, l)
  \/ Reload
  \/ StartEditing
  \/ \E n \in NameInputs : EditName(n)
  \/ \E b \in BioInputs : EditBio(b)
  \/ \E f \in Files : HandleAvatarChange(f)
  \/ HandleSave
  \/ ReaderLoadEnd
  \/ HandleCancel
  \/ HandleFollowClick

Spec == Init /\ [][NextApp]_vars

----------------------------------------------------------------------------
(* VideoFeed and VideoCard: handlers, media tasks and the browser *)

OnFeed == Idle /\ route = "/"

\* setActiveVideoIndex(clampedIndex) when it differs, for a scroll event
\* at position `top`
HandleScroll(top) ==
  /\ scrollTop' = top
  /\ activeVideoIndex' =
       LET clampedIndex == HandleScrollIndex(top, ClientHeight, Len(posts))
       IN IF clampedIndex # activeVideoIndex THEN clampedIndex
                                              ELSE activeVideoIndex

\* the user scrolls the feed to `top`; both versions of handleScroll
Scroll(top) ==
  /\ OnFeed /\ HasFeedRef /\ HasRoom(2)
  /\ top # scrollTop
  /\ HandleScroll(top)
  /\ oldFeed' = [activeVideoIndex |->
                   OldHandleScrollIndex(top, ClientHeight)]
  /\ lastOp' = <<"handleScroll">>
  /\ cards' = [i \in DOMAIN cards |-> Clear(cards[i])]
  /\ UNCHANGED <<appVars, profileVars, scrollEvent, feedDeps, svc,
                 unloaded, creatorVars, keyVars>>

\* the scroll event that follows scrollTo({top: 0})
ScrollEvent ==
  /\ OnFeed /\ HasFeedRef /\ HasRoom(2)
  /\ scrollEvent
  /\ HandleScroll(scrollTop)
  /\ scrollEvent' = FALSE
  /\ lastOp' = <<"handleScroll">>
  /\ cards' = [i \in DOMAIN cards |-> Clear(cards[i])]
  /\ UNCHANGED <<appVars, profileVars, feedDeps, oldFeed, svc,
                 unloaded, creatorVars, keyVars>>

\* a step of card i alone
CardStep(i, card, op) ==
  /\ cards' = [j \in DOMAIN cards |-> IF j = i THEN card ELSE Clear(cards[j])]
  /\ lastOp' = op
  /\ UNCHANGED <<appVars, profileVars, activeVideoIndex, scrollTop,
                 scrollEvent, feedDeps, oldFeed, svc, unloaded, creatorVars,
                 keyVars>>

\* a click on the card
TogglePlay(i, allowed) ==
  /\ OnFeed /\ HasRoom(1)
  /\ CardStep(i, TogglePlayCard(Clear(cards[i]), IsActive(i), allowed),
              <<"togglePlay">>)

\* a click on the mute button
ToggleMute(i) ==
  /\ OnFeed /\ HasRoom(1)
  /\ CardStep(i, ToggleMuteCard(Clear(cards[i])), <<"toggleMute">>)

\* a click on the like button
HandleLikeClick(i) ==
  /\ OnFeed
  /\ CardStep(i, HandleLikeClickCard(Clear(cards[i])), <<"handleLikeClick">>)

\* the browser runs the next media task of a card's element
MediaTask(i) ==
  /\ OnFeed
  /\ cards[i].tasks # <<>>
  /\ CardStep(i, RunMediaTask([Clear(cards[i]) EXCEPT !.tasks = Tail(@)],
                              Head(cards[i].tasks)),
              <<"mediaTask">>)

\* the element has data to play: its pending play promises are taken and
\* the task that resolves them is queued
VideoCanPlay(i) ==
  /\ route = "/"
  /\ ~cards[i].paused /\ cards[i].pending # <<>>
  /\ Len(cards[i].tasks) < MaxTasks
  /\ CardStep(i, [Clear(cards[i]) EXCEPT !.pending = <<>>,
                    !.tasks = Append(@, [type |-> "resolve",
                                         promises |-> cards[i].pending])],
              <<"browser">>)

\* the source cannot be loaded: the pending play promises are rejected
VideoLoadFail(i) ==
  /\ route = "/"
  /\ cards[i].pending # <<>>
  /\ Len(cards[i].tasks) < MaxTasks
  /\ CardStep(i, [Clear(cards[i]) EXCEPT !.pending = <<>>,
                    !.tasks = Append(@, [type |-> "reject",
                                         promises |-> cards[i].pending])],
              <<"browser">>)

\* the lists of posts App can hold: written by the default profile
RECURSIVE PostsWithLikes(_)
PostsWithLikes(likes) ==
  IF likes = <<>> THEN <<>>
  ELSE Append(PostsWithLikes(SubSeq(likes, 1, Len(likes) - 1)),
              NewPost(CHOOSE d \in NewPostData : TRUE, Len(likes) + 1,
                      Len(likes), likes[Len(likes)], DefaultProfile(1)))

FeedPosts ==
  UNION {{PostsWithLikes(l) : l \in [1..n -> LikeSamples]} : n \in 0..MaxPosts}

\* the lists among them whose posts got no likes
PlainPosts ==
  {PostsWithLikes([i \in 1..n |-> 0]) : n \in 0..MaxPosts}

\* the feed right after the page was loaded with one of `lists` stored
InitFeed(lists) ==
  \E ps \in lists :
    /\ route = "/"
    /\ posts = ps
    /\ userProfile = DefaultProfile(1)
    /\ localStorage =
         SetItem(SetItem(EmptyStore, PostsKey, StringifyPosts(ps)),
                 ProfileKey, StringifyProfile(DefaultProfile(1)))
    /\ nextUuid = Len(ps) + 2
    /\ now = Len(ps)
    /\ dirty = MountEffects("/")
    /\ pp = Unmounted
    /\ readers = <<>>
    /\ activeVideoIndex = 0
    /\ scrollTop = 0
    /\ scrollEvent = FALSE
    /\ feedDeps = NoDeps
    /\ cards = [i \in 1..Len(ps) |-> InitCard(SortedPosts(ps)[i])]
    /\ oldFeed = [activeVideoIndex |-> 0]
    /\ svc = IdleSvc
    /\ unloaded = {}
    /\ creator = CreatorUnmounted
    /\ thumbs = <<>>
    /\ requests = <<>>
    /\ apiKeyModal = NoModal
    /\ selector = FALSE
    /\ env = InitialKey
    /\ clients = 0
    /\ lastOp = <<"reload">>

\* scrolling and playback on the feed
NextFeed ==
  \/ RunEffects
  \/ \E top \in 0..MaxScrollTop : Scroll(top)
  \/ ScrollEvent
  \/ \E i \in DOMAIN cards, allowed \in BOOLEAN : TogglePlay(i, allowed)
  \/ \E i \in DOMAIN cards : ToggleMute(i)
  \/ \E i \in DOMAIN cards : MediaTask(i)
  \/ \E i \in DOMAIN cards : VideoCanPlay(i)
  \/ \E i \in DOMAIN cards : VideoLoadFail(i)

SpecFeed == InitFeed(PlainPosts) /\ [][NextFeed]_vars

\* the like buttons of the feed, across reloads
NextLikes ==
  \/ RunEffects
  \/ \E i \in DOMAIN cards : HandleLikeClick(i)
  \/ \E i \in DOMAIN cards : MediaTask(i)
  \/ \E i \in DOMAIN cards : VideoCanPlay(i)
  \/ Reload

SpecLikes == InitFeed(FeedPosts) /\ [][NextLikes]_vars

----------------------------------------------------------------------------
(* geminiService *)

MaxTextLen == 3
MaxClients == 4

TextChars == {" ", "\n", "a"}

\* the texts of a response, by length
RECURSIVE TextsOfLen(_)
TextsOfLen(n) ==
  IF n = 0 THEN {<<>>}
  ELSE {Append(t, ch) : t \in TextsOfLen(n - 1), ch \in TextChars}

Texts == UNION {TextsOfLen(n) : n \in 0..MaxTextLen}

NotFoundText ==
  <<"Requested", " ", "entity", " ", "was", " ", "not", " ", "found.">>
KeyNotValidText == <<"API", " ", "key", " ", "not", " ", "valid">>

\* the messages of the errors the API call fails with
MessageCores ==
  { NotFoundText, KeyNotValidText,
    <<"Requested", " ", "entity", " ", "was", " ", "found.">>,
    <<"API", " ", "key", " ", "valid">>,
    <<"api", " ", "key", " ", "not", " ", "valid">>,
    <<"Quota", " ", "exceeded">>, <<>> }

Messages ==
  {before \o core \o after :
     before \in {<<>>, <<"400:", " ">>}, core \in MessageCores,
     after \in {<<>>, <<" ", "(x)">>}}

\* what ai.models.generateContent does: a response whose text may be
\* missing, or an error whose message may be missing
ApiOutcomes ==
  {[ok |-> TRUE, hasText |-> TRUE, text |-> t] : t \in Texts}
  \cup {[ok |-> TRUE, hasText |-> FALSE, text |-> <<>>]}
  \cup {[ok |-> FALSE, hasText |-> TRUE, text |-> m] : m \in Messages}
  \cup {[ok |-> FALSE, hasText |-> FALSE, text |-> <<>>]}

GenerateFunctions ==
  {"generateVideoTitle", "generateVideoCaption", "generateVideoSummary"}

\* the model a function names in its GeminiApiKeyError
ModelOf(fn) ==
  IF fn = "generateVideoSummary" THEN "gemini-2.5-flash"
                                 ELSE "gemini-3-pro-image-preview"

IsNotFoundError(error) ==
  error.hasText /\ Includes(error.text, NotFoundText)

\* the condition of the catch block
IsApiKeyError(error) ==
  error.hasText /\ (\/ Includes(error.text, NotFoundText)
                    \/ Includes(error.text, KeyNotValidText))

\* one of generateVideoTitle, generateVideoCaption, generateVideoSummary:
\* what it returns or throws for an outcome of the API call
Generate(fn, outcome) ==
  IF outcome.ok
    THEN IF outcome.hasText /\ Trim(outcome.text) # <<>>
           THEN [kind |-> "return", isNull |-> FALSE,
                 text |-> Trim(outcome.text), name |-> "", model |-> ""]
           ELSE [kind |-> "return", isNull |-> TRUE, text |-> <<>>,
                 name |-> "", model |-> ""]
    ELSE IF IsApiKeyError(outcome)
           THEN [kind |-> "throw", isNull |-> FALSE, text |-> <<>>,
                 name |-> "GeminiApiKeyError", model |-> ModelOf(fn)]
           ELSE [kind |-> "throw", isNull |-> FALSE, text |-> outcome.text,
                 name |-> "Error", model |-> ""]

CachedGeminiClient(key, built) == [apiKey |-> InitialKey, id |-> 1]

\* createGeminiClient: new GoogleGenAI({ apiKey: process.env.API_KEY })
CreateGeminiClient(key, built) == [apiKey |-> key, id |-> built + 1]

\* a caller awaits one of the functions: the client is built at the call
CallGenerate(fn) ==
  /\ svc.phase = "idle"
  /\ clients < MaxClients
  /\ svc' = [phase |-> "called", fn |-> fn,
             client |-> CreateGeminiClient(env, clients)]
  /\ clients' = clients + 1
  /\ lastOp' = <<"call">>
  /\ UNCHANGED <<appVars, profileVars, feedVars, unloaded, creatorVars, env>>

\* the API call settles and the function returns or throws
ApiSettles(outcome) ==
  /\ svc.phase = "called"
  /\ svc' = [phase |-> "settled", fn |-> svc.fn, client |-> svc.client,
             outcome |-> outcome, result |-> Generate(svc.fn, outcome)]
  /\ lastOp' = <<"settle">>
  /\ UNCHANGED <<appVars, profileVars, feedVars, unloaded, creatorVars,
                 keyVars>>

\* the key the host injects as process.env.API_KEY changes, as after a
\* selection in the dialog of window.aistudio.openSelectKey
KeyInjected(k) ==
  /\ k # env
  /\ env' = k
  /\ selector' = FALSE
  /\ lastOp' = <<"keyInjected">>
  /\ UNCHANGED <<appVars, profileVars, feedVars, svc, unloaded, creator,
                 thumbs, requests, apiKeyModal, clients>>

\* the caller has taken the result
TakeResult ==
  /\ svc.phase = "settled"
  /\ svc' = IdleSvc
  /\ lastOp' = <<"taken">>
  /\ UNCHANGED <<appVars, profileVars, feedVars, unloaded, creatorVars,
                 keyVars>>

NextGemini ==
  \/ \E fn \in GenerateFunctions : CallGenerate(fn)
  \/ \E outcome \in ApiOutcomes : ApiSettles(outcome)
  \/ TakeResult
  \/ \E k \in Keys : KeyInjected(k)

SpecGemini == Init /\ [][NextGemini]_vars

----------------------------------------------------------------------------
(* PostCreator: handlers, the thumbnail extraction and the suggestions *)

MaxJobs == 1

CaptionInputs == {<<" ">>, <<" ", "oi", " ">>}

\* what the API does for the two calls of a suggestion request
CreatorOutcomes ==
  { [ok |-> TRUE, hasText |-> TRUE, text |-> <<" ", "a">>],
    [ok |-> TRUE, hasText |-> FALSE, text |-> <<>>],
    [ok |-> FALSE, hasText |-> TRUE, text |-> KeyNotValidText],
    [ok |-> FALSE, hasText |-> TRUE, text |-> <<"Quota", " ", "exceeded">>] }

DefaultPrompt == <<"Uma API key é necessária para este recurso avançado">>

\* the message of the GeminiApiKeyError a function throws
KeyErrorMessage(result) ==
  <<"É necessário selecionar uma API Key paga", result.model>>

\* handleApiKeySelectionNeeded(message) of App
HandleApiKeySelectionNeeded(message) ==
  /\ apiKeyModal' = [show |-> TRUE,
                     prompt |-> IF message # <<>> THEN message
                                                  ELSE DefaultPrompt]
  /\ selector' = TRUE

OnCreator == Idle /\ route = "/post" /\ creator.mounted

\* the two calls of Promise.all, each with the client it builds
SuggestionCalls(key, built) ==
  << [fn |-> "generateVideoTitle", client |-> CreateGeminiClient(key, built)],
     [fn |-> "generateVideoCaption",
      client |-> CreateGeminiClient(key, built + 1)] >>

\* the test `if (hasApiKeyError)` that opens the selector and returns
SelectKeyFirst(keyError) == keyError

\* handleGenerateSuggestions(thumbUrl), up to its await, in a closure that
\* holds `keyError` as hasApiKeyError; c is the state the handler has set
\* so far and `live` tells whether the component is still mounted
HandleGenerateSuggestions(c, thumbUrl, keyError, live) ==
  IF thumbUrl = Null
    THEN /\ creator' = c
         /\ UNCHANGED <<requests, apiKeyModal, selector, clients>>
    ELSE IF SelectKeyFirst(keyError)
      THEN /\ HandleApiKeySelectionNeeded(<<>>)
           /\ creator' = IF live THEN [c EXCEPT !.hasApiKeyError = FALSE]
                                  ELSE c
           /\ UNCHANGED <<requests, clients>>
      ELSE /\ clients + 2 <= MaxClients
           /\ creator' = IF live
                           THEN [c EXCEPT !.loadingSuggestions = TRUE,
                                          !.hasApiKeyError = FALSE]
                           ELSE c
           /\ requests' = Append(requests,
                             [calls |-> SuggestionCalls(env, clients),
                              live |-> live])
           /\ clients' = clients + 2
           /\ UNCHANGED <<apiKeyModal, selector>>

\* combinedSuggestion
Combined(title, legend) ==
  LET first == IF title.isNull THEN <<>> ELSE title.text
  IN IF legend.isNull THEN first
     ELSE (IF first # <<>> THEN first \o <<"\n", "\n">> ELSE first)
            \o legend.text

\* handleFileChange
HandleFileChange(file) ==
  /\ OnCreator
  /\ IF file # NoFile /\ StartsWith(file.type, <<"video/">>)
       THEN /\ Len(thumbs) < MaxJobs
            /\ creator' = [creator EXCEPT
                             !.videoFile = file,
                             !.videoPreviewUrl = ObjectUrl(file),
                             !.caption = <<>>,
                             !.thumbnailUrl = Null,
                             !.generatingThumbnail = TRUE,
                             !.hasApiKeyError = FALSE]
            /\ thumbs' = Append(thumbs,
                            [file |-> file,
                             keyError |-> creator.hasApiKeyError,
                             live |-> TRUE])
       ELSE /\ creator' = [creator EXCEPT
                             !.videoFile = NoFile,
                             !.videoPreviewUrl = Null,
                             !.thumbnailUrl = Null,
                             !.caption = <<>>,
                             !.generatingThumbnail = FALSE,
                             !.hasApiKeyError = FALSE]
            /\ UNCHANGED thumbs
  /\ lastOp' = <<"other">>
  /\ UNCHANGED <<appVars, profileVars, feedVars, svc, unloaded, requests,
                 apiKeyModal, selector, keyVars>>

\* videoElement.onseeked: the thumbnail, then the suggestions, through the
\* handleGenerateSuggestions of the render handleFileChange came from
ThumbnailSeeked(hasContext) ==
  /\ Idle
  /\ thumbs # <<>>
  /\ LET job == Head(thumbs)
     IN IF hasContext
          THEN HandleGenerateSuggestions(
                 IF job.live
                   THEN [creator EXCEPT !.thumbnailUrl = ThumbUrl(job.file),
                                        !.generatingThumbnail = FALSE]
                   ELSE creator,
                 ThumbUrl(job.file), job.keyError, job.live)
          ELSE /\ creator' = IF job.live
                               THEN [creator EXCEPT
                                       !.generatingThumbnail = FALSE]
                               ELSE creator
               /\ UNCHANGED <<requests, apiKeyModal, selector, clients>>
  /\ thumbs' = Tail(thumbs)
  /\ lastOp' = <<"other">>
  /\ UNCHANGED <<appVars, profileVars, feedVars, svc, unloaded, env>>

\* videoElement.onerror
ThumbnailError ==
  /\ Idle
  /\ thumbs # <<>>
  /\ creator' = IF Head(thumbs).live
                  THEN [creator EXCEPT !.thumbnailUrl = Null,
                                       !.generatingThumbnail = FALSE]
                  ELSE creator
  /\ thumbs' = Tail(thumbs)
  /\ lastOp' = <<"other">>
  /\ UNCHANGED <<appVars, profileVars, feedVars, svc, unloaded, requests,
                 apiKeyModal, selector, keyVars>>

\* onChange of the caption <textarea>
EditCaption(text) ==
  /\ OnCreator
  /\ creator' = [creator EXCEPT !.caption = text]
  /\ lastOp' = <<"other">>
  /\ UNCHANGED <<appVars, profileVars, feedVars, svc, unloaded, thumbs,
                 requests, apiKeyModal, selector, keyVars>>

\* getButtonText
GetButtonText(c) ==
  IF c.loadingSuggestions THEN "Gerando sugestões..."
  ELSE IF c.hasApiKeyError THEN "Selecionar API Key e Tentar Novamente"
  ELSE "Gerar Legenda com IA Gemini"

\* a press of the generate button, rendered when there is a thumbnail
GenerateClick ==
  /\ OnCreator
  /\ creator.thumbnailUrl # Null
  /\ ~creator.loadingSuggestions /\ ~creator.generatingThumbnail
  /\ HandleGenerateSuggestions(creator, creator.thumbnailUrl,
                               creator.hasApiKeyError, TRUE)
  /\ lastOp' = <<"generateClick">>
  /\ UNCHANGED <<appVars, profileVars, feedVars, svc, unloaded, thumbs, env>>

\* the two calls of a request have settled: the rest of
\* handleGenerateSuggestions; Promise.all rejects with the rejection that
\* comes first
SuggestionsSettle(titleOutcome, legendOutcome, first) ==
  /\ Idle
  /\ requests # <<>>
  /\ LET rq == Head(requests)
         title == Generate(rq.calls[1].fn, titleOutcome)
         legend == Generate(rq.calls[2].fn, legendOutcome)
         failed == title.kind = "throw" \/ legend.kind = "throw"
         error == IF /\ title.kind = "throw"
                     /\ first = 1 \/ legend.kind # "throw"
                    THEN title ELSE legend
     IN IF ~failed
          THEN /\ creator' = IF rq.live
                               THEN [creator EXCEPT
                                       !.caption = Combined(title, legend),
                                       !.loadingSuggestions = FALSE]
                               ELSE creator
               /\ UNCHANGED <<apiKeyModal, selector>>
          ELSE IF error.name = "GeminiApiKeyError"
            THEN /\ creator' = IF rq.live
                                 THEN [creator EXCEPT
                                         !.hasApiKeyError = TRUE,
                                         !.loadingSuggestions = FALSE]
                                 ELSE creator
                 /\ HandleApiKeySelectionNeeded(KeyErrorMessage(error))
            ELSE /\ creator' = IF rq.live
                                 THEN [creator EXCEPT
                                         !.loadingSuggestions = FALSE]
                                 ELSE creator
                 /\ UNCHANGED <<apiKeyModal, selector>>
  /\ requests' = Tail(requests)
  /\ lastOp' = <<"other">>
  /\ UNCHANGED <<appVars, profileVars, feedVars, svc, unloaded, thumbs,
                 keyVars>>

CanPostWithoutThumbnail(c) ==
  /\ c.videoFile # NoFile
  /\ c.videoPreviewUrl # Null
  /\ Trim(c.caption) # <<>>

\* videoFile && videoPreviewUrl && thumbnailUrl && caption.trim()
CanPost(c) ==
  /\ c.videoFile # NoFile
  /\ c.videoPreviewUrl # Null
  /\ c.thumbnailUrl # Null
  /\ Trim(c.caption) # <<>>

\* the post button is not disabled
PostButtonEnabled(c) ==
  /\ c.videoFile # NoFile
  /\ Trim(c.caption) # <<>>
  /\ ~c.loadingSuggestions
  /\ ~c.generatingThumbnail

\* handleSubmit: onPost is handlePost of App, whose navigation unmounts
\* the form handleSubmit resets
HandleSubmit(likes) ==
  /\ OnCreator
  /\ PostButtonEnabled(creator)
  /\ IF CanPost(creator)
       THEN HandlePost([videoUrl |-> creator.videoPreviewUrl,
                        thumbnailUrl |-> creator.thumbnailUrl,
                        caption |-> Trim(creator.caption)], likes)
       ELSE /\ lastOp' = <<"handleSubmit">>
            /\ UNCHANGED <<appVars, profileVars, feedVars, svc, unloaded,
                           creatorVars, keyVars>>

\* handleCancelClick: the form is reset and onCancel navigates to '/'
HandleCancelClick == OnCreator /\ Navigate("/")

\* onClose of the API key modal
CloseModal ==
  /\ apiKeyModal.show
  /\ apiKeyModal' = [apiKeyModal EXCEPT !.show = FALSE]
  /\ lastOp' = <<"other">>
  /\ UNCHANGED <<appVars, profileVars, feedVars, svc, unloaded, creator,
                 thumbs, requests, selector, keyVars>>

\* creating a post
NextCreator ==
  \/ RunEffects
  \/ \E r \in {"/", "/post"} : Navigate(r)
  \/ \E f \in Uploads : HandleFileChange(f)
  \/ \E hasContext \in BOOLEAN : ThumbnailSeeked(hasContext)
  \/ ThumbnailError
  \/ \E text \in CaptionInputs : EditCaption(text)
  \/ GenerateClick
  \/ \E o1, o2 \in CreatorOutcomes, first \in 1..2 :
        SuggestionsSettle(o1, o2, first)
  \/ \E l \in LikeSamples : HandleSubmit(l)
  \/ HandleCancelClick
  \/ \E k \in Keys : KeyInjected(k)
  \/ CloseModal

SpecCreator == Init /\ [][NextCreator]_vars

----------------------------------------------------------------------------
(* Persistence of the posts and of the profile *)

PostsStored ==
  /\ HasItem(localStorage, PostsKey)
  /\ localStorage[PostsKey] = StringifyPosts(posts)
  /\ InitPosts(localStorage) = posts

PostsDefault ==
  /\ InitPosts(EmptyStore) = <<>>
  /\ InitPosts(SetItem(localStorage, PostsKey, Unparsable)) = <<>>

\* C1: once the persistence effect has run, the text stored under
\* 'socialvid_posts' is the serialisation of posts and constructing App from
\* the storage gives the same posts; a reload leaves posts as they were; an
\* absent or unparsable text gives the empty list.
PostsSurviveReload ==
  /\ [](Idle => PostsStored /\ PostsDefault)
  /\ [][lastOp' = <<"reload">> => posts' = posts]_vars

PostsReloaded ==
  lastOp = <<"reload">> /\ Len(posts) >= 2 /\ PostsStored

ProfileUpdated ==
  lastOp \in {<<"handleSave">>, <<"onloadend">>, <<"handleFollowClick">>}

ProfileStored ==
  /\ HasItem(localStorage, ProfileKey)
  /\ localStorage[ProfileKey] = StringifyProfile(userProfile)
  /\ InitUserProfile(localStorage, nextUuid) = userProfile

\* C2: after every updateUserProfile call, and whenever no effect is
\* pending, the text stored under 'socialvid_user_profile' is the
\* serialisation of userProfile; a reload restores that profile, id
\* included, and the followed flag stored for its id.
ProfileSurvivesReload ==
  /\ [](Idle \/ ProfileUpdated => ProfileStored)
  /\ [][lastOp' = <<"reload">> =>
          /\ userProfile' = userProfile
          /\ pp'.mounted =>
               pp'.isFollowed = StoredFollowed(localStorage, userProfile.id)
       ]_vars

ProfileReloaded ==
  /\ lastOp = <<"reload">>
  /\ userProfile.followers = 1
  /\ userProfile.name = <<"Ana">>
  /\ pp.mounted /\ pp.isFollowed

FollowersMatchFlag ==
  /\ userProfile.followers <= 1
  /\ userProfile.followers =
       (IF StoredFollowed(localStorage, userProfile.id) THEN 1 ELSE 0)
  /\ pp.mounted /\ Idle =>
       pp.isFollowed = StoredFollowed(localStorage, userProfile.id)

FollowClickCounts ==
  lastOp' = <<"handleFollowClick">> =>
    /\ userProfile'.followers = userProfile.followers +
         (IF StoredFollowed(localStorage, userProfile.id) THEN 0 ELSE 1)
    /\ pp'.isFollowed
    /\ StoredFollowed(localStorage', userProfile'.id)

\* C8: the first follow click adds 1 to followers and every later one adds
\* 0, so followers never exceeds the initial 0 plus 1; after a click
\* isFollowed is true and 'socialvid_followed_<id>' holds 'true', and the
\* page shows the stored flag again after a reload.
FollowedAtMostOnce ==
  /\ []FollowersMatchFlag
  /\ [][FollowClickCounts]_vars

\* a later click, after a reload, that found the profile followed
FollowedTwiceClicked ==
  /\ lastOp = <<"handleFollowClick">>
  /\ userProfile.followers = 1
  /\ Idle

----------------------------------------------------------------------------
(* The feed *)

PostOf(i) == SortedPosts(posts)[i]

LikeCountMatches ==
  \A i \in DOMAIN cards :
     /\ cards[i].likeCount =
          PostOf(i).likes + (IF cards[i].isLiked THEN 1 ELSE 0)
     /\ cards[i].likeCount \in {PostOf(i).likes, PostOf(i).likes + 1}

LikeClickFlips ==
  lastOp' = <<"handleLikeClick">> =>
    \E i \in DOMAIN cards :
       /\ cards'[i].isLiked = ~cards[i].isLiked
       /\ \A j \in DOMAIN cards \ {i} :
             /\ cards'[j].isLiked = cards[j].isLiked
             /\ cards'[j].likeCount = cards[j].likeCount

\* C3: on every card likeCount is post.likes + 1 when isLiked and post.likes
\* when not, so it never leaves {post.likes, post.likes + 1}; a like click
\* flips isLiked of its card and leaves the other cards alone, hence two
\* clicks in a row restore isLiked and likeCount.
OptimisticLikeToggle ==
  /\ []LikeCountMatches
  /\ [][LikeClickFlips]_vars

\* the only card was liked and unliked again
LikedAndUnliked ==
  /\ lastOp = <<"handleLikeClick">>
  /\ Len(cards) = 1
  /\ ~cards[1].isLiked
  /\ cards[1].likeCount = 99

Settled(i) == Idle /\ cards[i].tasks = <<>>

InactiveIsPaused ==
  \A i \in DOMAIN cards :
     Settled(i) /\ ~IsActive(i) => cards[i].paused /\ ~cards[i].isPlaying

AtMostOnePlaying ==
  /\ Cardinality({i \in DOMAIN cards : ~cards[i].paused}) <= 1
  /\ (\A i \in DOMAIN cards : Settled(i)) =>
        Cardinality({i \in DOMAIN cards : cards[i].isPlaying}) <= 1

PlayCalled(c) == \E k \in DOMAIN c.calls : c.calls[k] = "play"

ToggleNeedsActive ==
  lastOp' = <<"togglePlay">> =>
    \A i \in DOMAIN cards :
       ~IsActive(i) => cards'[i].paused /\ ~PlayCalled(cards'[i])

ActivationPlays ==
  lastOp' = <<"RunEffects">> =>
    \A i \in DOMAIN cards :
       CardEffectPending(i) /\ IsActive(i) /\ cards[i].hasVideo =>
         PlayCalled(cards'[i])

\* C4: once the effects and the media tasks of a card have run, a card that
\* is not active is paused with isPlaying false; togglePlay never calls
\* play() on a card that is not active; at most one element is out of the
\* paused state at any time; the effect of a card that has become active
\* (or whose mute state changed while active) calls play().
PlaybackFollowsVisibility ==
  /\ [](InactiveIsPaused /\ AtMostOnePlaying)
  /\ [][ToggleNeedsActive /\ ActivationPlays]_vars

\* a card that was playing lost the active state and its effect paused it
PlayingCardPaused ==
  /\ lastOp = <<"RunEffects">>
  /\ \E j \in DOMAIN cards :
        /\ ~IsActive(j) /\ cards[j].paused
        /\ cards[j].calls = <<"pause">>
        /\ \E k \in DOMAIN cards[j].tasks : cards[j].tasks[k].type = "pause"
  /\ \E i \in DOMAIN cards : IsActive(i) /\ PlayCalled(cards[i])

\* C5: while the feed shows at least one post, activeVideoIndex of either
\* version of VideoFeed is between 0 and posts.length - 1 and exactly one
\* card is active.
ActiveIndexInBounds ==
  route = "/" /\ Len(posts) >= 1 =>
    /\ activeVideoIndex \in 0..(Len(posts) - 1)
    /\ oldFeed.activeVideoIndex \in 0..(Len(posts) - 1)
    /\ Cardinality({i \in DOMAIN cards : IsActive(i)}) = 1

\* handleScroll has run at the bottom of a feed of several posts
ScrolledToLast ==
  /\ lastOp = <<"handleScroll">>
  /\ Len(posts) >= 2
  /\ scrollTop = MaxScrollTop
  /\ activeVideoIndex = Len(posts) - 1
  /\ oldFeed.activeVideoIndex = Len(posts) - 1

\* C6: after handleScroll ran with the feed snapped on card k
\* (scrollTop = k * clientHeight), the active index is k.
SnappedScrollSelectsCard ==
  lastOp = <<"handleScroll">> /\ scrollTop % ClientHeight = 0 =>
    activeVideoIndex = scrollTop \div ClientHeight

\* C7: the effect of VideoFeed resets the feed (scrollTop 0, active index
\* 0) when it runs on mount, and an effect run with the posts unchanged
\* neither moves the scroll position nor sets the active index back to 0.
ResetOnlyOnPostsChange ==
  [][lastOp' = <<"RunEffects">> /\ HasFeedRef =>
       IF feedDeps = NoDeps \/ feedDeps[2] # Len(posts)
         THEN scrollTop' = 0 /\ activeVideoIndex' = 0
         ELSE /\ scrollTop' = scrollTop
              /\ activeVideoIndex' = activeVideoIndex
    ]_vars

----------------------------------------------------------------------------
(* geminiService: results *)

CallSettled == svc.phase = "settled"

\* the message has the form  a + needle + b
Contains(text, needle) ==
  \E k \in 0..Len(text) :
     /\ k + Len(needle) <= Len(text)
     /\ \A j \in 1..Len(needle) : text[k + j] = needle[j]

KeyRelated(outcome) ==
  /\ ~outcome.ok
  /\ outcome.hasText
  /\ Contains(outcome.text, NotFoundText)
       \/ Contains(outcome.text, KeyNotValidText)

\* C9: when the API call fails with an error that is not API-key related,
\* the function returns null to its caller.
NullOnOtherError ==
  CallSettled /\ ~svc.outcome.ok /\ ~KeyRelated(svc.outcome) =>
    svc.result.kind = "return" /\ svc.result.isNull

\* `inner` is `text` without the white space at its two ends
IsTrimOf(inner, text) ==
  \E a \in 0..Len(text) :
     /\ a + Len(inner) <= Len(text)
     /\ \A j \in 1..Len(inner) : text[a + j] = inner[j]
     /\ \A j \in 1..a : text[j] \in WhiteSpace
     /\ \A j \in (a + Len(inner) + 1)..Len(text) : text[j] \in WhiteSpace
     /\ inner # <<>> => inner[1] \notin WhiteSpace
     /\ inner # <<>> => inner[Len(inner)] \notin WhiteSpace

Blank(text) == \A j \in DOMAIN text : text[j] \in WhiteSpace

\* C10: a function throws GeminiApiKeyError exactly when the API call
\* failed with a message that contains "Requested entity was not found."
\* or "API key not valid"; when the call succeeds it returns the text of
\* the response without the white space at its ends, or null when the text
\* is missing or blank.
KeyErrorAndTrimmedText ==
  CallSettled =>
    /\ (svc.result.kind = "throw" /\ svc.result.name = "GeminiApiKeyError")
         <=> KeyRelated(svc.outcome)
    /\ svc.outcome.ok =>
         /\ svc.result.kind = "return"
         /\ svc.result.isNull
              <=> (~svc.outcome.hasText \/ Blank(svc.outcome.text))
         /\ ~svc.result.isNull =>
              IsTrimOf(svc.result.text, svc.outcome.text)

\* a failure whose message holds "API key not valid" inside a longer text
KeyErrorThrown ==
  /\ CallSettled
  /\ ~svc.outcome.ok
  /\ svc.outcome.text = <<"400:", " ">> \o KeyNotValidText \o <<" ", "(x)">>
  /\ svc.result.kind = "throw"
  /\ svc.result.name = "GeminiApiKeyError"

----------------------------------------------------------------------------
(* The like state of the cards across a reload *)

\* C11: the liked flag and the like count a card shows after like clicks
\* are in localStorage and a reload restores them: every card shows after
\* the reload what it showed before.
LikeStateSurvivesReload ==
  [][lastOp' = <<"reload">> =>
       \A i \in DOMAIN cards :
          /\ i \in DOMAIN cards'
          /\ Shown(cards'[i]) = Shown(cards[i])
    ]_vars

\* the likes of the posts as stored
StoredLikes(store) ==
  [i \in DOMAIN InitPosts(store) |-> InitPosts(store)[i].likes]

\* C11 (amended): the liked flag and the like count of a card are state of
\* the card alone: a like click changes neither posts nor localStorage, and
\* after a reload every card is not liked and shows the likes stored with
\* its post.
LikeStateIsCardState ==
  [][/\ lastOp' = <<"handleLikeClick">> =>
          /\ posts' = posts
          /\ localStorage' = localStorage
          /\ StoredLikes(localStorage')
               = [i \in DOMAIN posts |-> posts[i].likes]
     /\ lastOp' = <<"reload">> =>
          /\ posts' = posts
          /\ \A i \in DOMAIN cards' :
                /\ ~cards'[i].isLiked
                /\ cards'[i].likeCount = SortedPosts(posts)[i].likes
    ]_vars

\* a card that showed a like before the reload shows none after it
LikeLostOnReload ==
  /\ lastOp = <<"reload">>
  /\ \E i \in DOMAIN cards :
        /\ cards[i].key \in unloaded
        /\ ~cards[i].isLiked
        /\ cards[i].likeCount = SortedPosts(posts)[i].likes

----------------------------------------------------------------------------
(* The feed after a post *)

\* the post a card renders, found by its key
PostOfCard(c) == CHOOSE p \in {posts[k] : k \in DOMAIN posts} : p.id = c.key

NewestPostOnTop ==
  lastOp = <<"handlePost">> =>
    /\ route = "/"
    /\ Len(cards) = Len(posts)
    /\ cards[1].key = posts[Len(posts)].id
    /\ \A i, j \in DOMAIN cards :
          i < j => PostOfCard(cards[i]).timestamp
                     >= PostOfCard(cards[j]).timestamp
    /\ scrollTop = 0

SettledOnNewestPost ==
  lastOp = <<"handlePost">> /\ lastOp' = <<"RunEffects">> =>
    /\ ~EffectsPending'
    /\ scrollTop' = 0 /\ ~scrollEvent'
    /\ activeVideoIndex' = 0
    /\ cards'[1].key = posts[Len(posts)].id
    /\ PlayCalled(cards'[1])
    /\ \A i \in DOMAIN cards' : i # 1 => cards'[i].paused

\* C12: right after handlePost the route is '/', the cards are rendered in
\* non-increasing timestamp order with the new post first and the feed is
\* scrolled to the top; the effects that follow leave no effect pending and
\* the first card, the new post, is the active one and is played.
FeedStartsWithNewestPost ==
  /\ []NewestPostOnTop
  /\ [][SettledOnNewestPost]_vars

\* a second post was made and is rendered above the first
SecondPostOnTop ==
  /\ lastOp = <<"handlePost">>
  /\ Len(posts) = 2
  /\ cards[1].key = posts[2].id
  /\ cards[2].key = posts[1].id
  /\ activeVideoIndex = 0

----------------------------------------------------------------------------
(* PostCreator: the retry after an API key error *)

\* a suggestion request was issued by the step
NewSuggestionCalls ==
  /\ Len(requests') = Len(requests) + 1
  /\ requests'[Len(requests')].calls[1].fn = "generateVideoTitle"
  /\ requests'[Len(requests')].calls[2].fn = "generateVideoCaption"

\* C13: with hasApiKeyError true, a press of the generate button, which is
\* then labelled 'Selecionar API Key e Tentar Novamente', opens the key
\* selector and issues new generateVideoTitle and generateVideoCaption
\* calls.
RetryAfterKeyError ==
  [][/\ lastOp' = <<"generateClick">>
     /\ creator.hasApiKeyError
     /\ GetButtonText(creator) = "Selecionar API Key e Tentar Novamente"
     => selector' /\ NewSuggestionCalls
    ]_vars

----------------------------------------------------------------------------
(* geminiService: the client of a call *)

ClientBuiltAtCall ==
  lastOp' = <<"call">> =>
    /\ svc'.client.apiKey = env
    /\ svc'.client.id > clients
    /\ clients' = clients + 1

ClientKeptForCall ==
  svc.phase # "idle" /\ svc'.phase # "idle" => svc'.client = svc.client

\* C14: a call of generateVideoTitle, generateVideoCaption or
\* generateVideoSummary builds a client that no earlier call had, with the
\* value API_KEY has at that call, and the call keeps this client until it
\* settles; so a call made after the key changed uses the new key.
FreshClientPerCall == [][ClientBuiltAtCall /\ ClientKeptForCall]_vars

\* a later call, made after the key was replaced
CalledWithNewKey ==
  /\ lastOp = <<"call">>
  /\ svc.client.id >= 2
  /\ env # InitialKey
  /\ svc.client.apiKey = env

----------------------------------------------------------------------------
(* VideoCard: the mute button *)

MuteClickFlipsMuted ==
  lastOp' = <<"toggleMute">> =>
    /\ \E i \in DOMAIN cards :
          /\ cards'[i].muted = ~cards[i].muted
          /\ cards'[i].isMuted = cards'[i].muted
    /\ \A i \in DOMAIN cards :
          cards'[i].paused = cards[i].paused /\ cards'[i].calls = <<>>

MuteEffectKeepsPlayback ==
  lastOp = <<"toggleMute">> /\ lastOp' = <<"RunEffects">> =>
    \A i \in DOMAIN cards :
       IsActive(i) =>
         cards'[i].paused = cards[i].paused /\ cards'[i].calls = <<>>

\* C15: a mute click flips the muted flag of its card and leaves every
\* element as paused or playing as it was; the effects that follow the click
\* call neither play() nor pause() on the active card, so a video its user
\* paused stays paused.
MuteLeavesPlayback == [][MuteClickFlipsMuted /\ MuteEffectKeepsPlayback]_vars

----------------------------------------------------------------------------
(* PostCreator: the post button *)

\* a video file, a preview URL, a thumbnail and a caption that is not blank
AllPresent(c) ==
  /\ c.videoFile # NoFile
  /\ c.videoPreviewUrl # Null
  /\ c.thumbnailUrl # Null
  /\ ~Blank(c.caption)

FormOf(c) == <<c.videoFile, c.videoPreviewUrl, c.thumbnailUrl, c.caption>>

SubmitPosts ==
  lastOp' = <<"handlePost">> =>
    /\ AllPresent(creator)
    /\ Len(posts') = Len(posts) + 1
    /\ SubSeq(posts', 1, Len(posts)) = posts
    /\ LET post == posts'[Len(posts')]
       IN /\ IsTrimOf(post.caption, creator.caption)
          /\ post.videoUrl = creator.videoPreviewUrl
          /\ post.thumbnailUrl = creator.thumbnailUrl
    /\ FormOf(creator') = <<NoFile, Null, Null, <<>> >>
    /\ ~creator'.hasApiKeyError

SubmitRefused ==
  lastOp' = <<"handleSubmit">> =>
    /\ ~AllPresent(creator)
    /\ posts' = posts
    /\ route' = route
    /\ creator' = creator

\* C16: handleSubmit calls onPost only when a video file, a preview URL, a
\* thumbnail and a caption that is not blank are all present, and then one
\* post is added, with the trimmed caption, and the form is reset; when one
\* of them is missing no post is added and the form is left as it was; no
\* other step of PostCreator adds a post.
SubmitNeedsCompleteForm ==
  [][/\ SubmitPosts
     /\ SubmitRefused
     /\ posts' # posts => lastOp' = <<"handlePost">>
    ]_vars

\* after a post with a trimmed caption, a submit without thumbnail refused
SubmitRefusedAfterPost ==
  /\ lastOp = <<"handleSubmit">>
  /\ creator.videoFile # NoFile
  /\ creator.thumbnailUrl = Null
  /\ creator.caption = <<" ", "oi", " ">>
  /\ Len(posts) = 1
  /\ posts[1].caption = <<"oi">>

====
